---- MODULE Spec2Model ----
(***************************************************************************)
(* Model of the tool-path reconciliation of the ideScripts:                *)
(*   updateBuildData.py  (BuildData, entry point "update build data")      *)
(*   updatePaths.py      (UpdatePaths, entry point "update paths")         *)
(*   utilities.py        (path probe, prompts, derived fields)             *)
(*                                                                         *)
(* A path or command is the sequence of its components: "/tc/bin/gcc" is   *)
(* <<"/", "tc", "bin", "gcc">>, the bare command "make" is <<"make">> and  *)
(* the empty string is <<>>.  Both separators denote the same sequence, so *)
(* the replacement of "\" by "/" does not show in this representation; the *)
(* normalisation of os.path.normpath does.                                 *)
(***************************************************************************)
EXTENDS Integers, Sequences, FiniteSets, TLC

VARIABLES
    env,            \* the machine: search path, OS family, permissions (fixed)
    descFile,       \* .vscode/buildData.json              [kind, data]
    cacheFile,      \* <settings>/toolsPaths.json          [kind, data]
    pc,             \* position of the running script
    entry,          \* which script runs: "build" or "paths"
    buildData,      \* the dictionary the scripts pass around
    toolsPathsData, \* what addToolsPathsData read from the cache in this run
    request,        \* verifyExistingPaths' parameter
    toolIx,         \* position in self.toolsList
    updated,        \* the loop's 'updated' flag
    cubeMxProjectFilePath,  \* utilities' global, <<>> stands for None
    out,            \* messages printed during this run
    runs,           \* scripts started so far (also the clock of LAST_RUN)
    passStart,      \* buildData as verifyExistingPaths received it
    asked,          \* prompts issued for each tool in this pass
    derivedFrom,    \* per tool, the path its derived field was computed from in this pass
    prev,           \* documents left by the previous run, and whether it completed
    noop,           \* no operator answer in this run changed a value
    race            \* two runs at once: each run's position, and the cache's bytes

vars == <<env, descFile, cacheFile, pc, entry, buildData, toolsPathsData, request,
          toolIx, updated, cubeMxProjectFilePath, out, runs, passStart, asked,
          derivedFrom, prev, noop, race>>

(***************************************************************************)
(* Bounds of the model.                                                    *)
(***************************************************************************)
MaxRuns == 2

(***************************************************************************)
(* BuildDataStrings (updateBuildData.py 19-48)                             *)
(***************************************************************************)
gccExePath == "gccExePath"
gccInludePath == "gccInludePath"
buildToolsPath == "buildToolsPath"
pythonPath == "pythonPath"
openOcdPath == "openOcdPath"
openOcdConfig == "openOcdConfig"
stm32SvdPath == "stm32SvdPath"
stm32SvdFile == "stm32SvdFile"
cubeMxProjectPath == "cubeMxProjectPath"
targetExecutablePath == "targetExecutablePath"

\* the eight fields createUserToolsFile and addToolsPathsData copy
ToolFields ==
    {gccExePath, gccInludePath, buildToolsPath, pythonPath,
     openOcdPath, openOcdConfig, stm32SvdPath, stm32SvdFile}

\* the build facts addMakefileDataToBuildDataFile copies verbatim
FactFields ==
    {"cSources", "asmSources", "cIncludes", "asmIncludes",
     "cDefines", "asmDefines", "cFlags", "asmFlags", "buildDir"}

(***************************************************************************)
(* Dictionaries (parsed JSON objects): functions from keys to values.     *)
(***************************************************************************)
EmptyDict == [k \in {} |-> <<>>]

Put(d, k, v) == [x \in (DOMAIN d) \cup {k} |-> IF x = k THEN v ELSE d[x]]

Has(d, k) == k \in DOMAIN d

\* dict without the keys of ks
Without(d, ks) == [x \in (DOMAIN d) \ ks |-> d[x]]

(***************************************************************************)
(* os.path on component sequences                                          *)
(***************************************************************************)
IsAbs(p) == Len(p) > 0 /\ p[1] = "/"

IsPrefix(a, b) == Len(a) <= Len(b) /\ SubSeq(b, 1, Len(a)) = a

dirname(p) ==
    IF Len(p) <= 1
        THEN (IF IsAbs(p) THEN p ELSE <<>>)
        ELSE SubSeq(p, 1, Len(p) - 1)

join(a, b) == IF IsAbs(b) \/ a = <<>> THEN b ELSE a \o b

\* a + "/" + b on strings
slash(a, b) == IF a = <<>> THEN <<"/">> \o b ELSE a \o b

RECURSIVE normStack(_, _)
normStack(done, rest) ==
    IF rest = <<>> THEN done
    ELSE LET c == Head(rest)
             t == Tail(rest)
         IN  IF c = "." THEN normStack(done, t)
             ELSE IF c = ".."
                 THEN IF done = <<>> \/ done[Len(done)] = ".."
                          THEN normStack(Append(done, c), t)
                      ELSE IF done = <<"/">>
                          THEN normStack(done, t)
                      ELSE normStack(SubSeq(done, 1, Len(done) - 1), t)
             ELSE normStack(Append(done, c), t)

normpath(p) ==
    LET n == normStack(<<>>, p)
    IN  IF n = <<>> THEN <<".">> ELSE n

pathWithForwardSlashes(p) == normpath(p)

(***************************************************************************)
(* The machine.  The files below exist in every world; a world adds the    *)
(* interpreter, puts the compiler on the search path or not, and fixes the *)
(* OS family, the number of .ioc files and the permissions.                *)
(***************************************************************************)
Cwd == <<"/", "ws">>
workspacePath == <<"/", "ws">>

GccExe == <<"/", "tc", "bin", "arm-none-eabi-gcc">>
GccInclude == <<"/", "tc", "lib", "gcc", "arm-none-eabi", "9", "include">>
NoLibGccExe == <<"/", "nolib", "bin", "arm-none-eabi-gcc">>
MakeExe == <<"/", "usr", "bin", "make">>
OcdExe == <<"/", "oo", "bin", "openocd">>
OcdScripts == <<"/", "oo", "share", "openocd", "scripts">>
SvdDir == <<"/", "svd">>
Python3Exe == <<"/", "usr", "bin", "python3">>
PythonExe == <<"/", "usr", "bin", "python">>
AltPython == <<"/", "opt", "py", "bin", "python3">>
Nowhere == <<"/", "gone">>

Executables ==
    {GccExe, NoLibGccExe, MakeExe, OcdExe, AltPython}
    \cup (IF env.python THEN {Python3Exe, PythonExe} ELSE {})

Files ==
    Executables
    \cup {GccInclude \o <<"stdint.h">>,
          OcdScripts \o <<"target", "stm32.cfg">>,
          OcdScripts \o <<"interface", "stlink.cfg">>,
          SvdDir \o <<"f0.svd">>,
          workspacePath \o <<"Makefile">>}

Prefixes(p) == {SubSeq(p, 1, k) : k \in 1..Len(p)}

Directories == (UNION {Prefixes(dirname(f)) : f \in Files})

\* the directories of the executable search path, in order
SearchPath ==
    IF env.gccOnPath
        THEN <<dirname(MakeExe), dirname(GccExe)>>
        ELSE <<dirname(MakeExe)>>

resolve(p) == normpath(IF IsAbs(p) THEN p ELSE Cwd \o p)

\* os.path.exists
exists(p) == p # <<>> /\ resolve(p) \in Files \cup Directories

\* os.path.exists of a string that ends with "/"
existsDir(p) == p # <<>> /\ resolve(p) \in Directories

\* shutil.which; <<>> stands for None
which(cmd) ==
    IF cmd = <<>> THEN <<>>
    ELSE IF dirname(cmd) # <<>>
        THEN (IF resolve(cmd) \in Executables THEN cmd ELSE <<>>)
    ELSE LET hits == {i \in 1..Len(SearchPath) : join(SearchPath[i], cmd) \in Executables}
         IN  IF hits = {} THEN <<>>
             ELSE join(SearchPath[CHOOSE i \in hits : \A j \in hits : i <= j], cmd)

\* utilities.pathExists on a string value
pathExists(p) == exists(p) \/ which(p) # <<>>

\* utilities.detectOS
detectOS == env.os

(***************************************************************************)
(* Derived fields (utilities.py)                                           *)
(***************************************************************************)
gccSearchPath(gcc) ==
    join(join(join(dirname(dirname(gcc)), <<"lib">>), <<"gcc">>), <<"arm-none-eabi">>)

\* the directories os.walk can report: those below searchPath that hold stdint.h
StdintDirs == {dirname(f) : f \in {x \in Files : x[Len(x)] = "stdint.h"}}

\* a plausible slip: the searched folder itself returned when the walk finds
\* nothing
getGccIncludePath_FallsBack(gcc) ==
    LET sp == gccSearchPath(gcc)
        rs == resolve(sp)
        found == {pathWithForwardSlashes(sp \o SubSeq(d, Len(rs) + 1, Len(d))) :
                    d \in {x \in StdintDirs : IsPrefix(rs, x)}}
    IN  IF found = {} THEN {pathWithForwardSlashes(sp)} ELSE found

\* getGccIncludePath: the set of folders the walk may return first; the empty
\* set is the call of printAndQuit
getGccIncludePath(gcc) ==
    LET sp == gccSearchPath(gcc)
        rs == resolve(sp)
    IN  {pathWithForwardSlashes(sp \o SubSeq(d, Len(rs) + 1, Len(d))) :
            d \in {x \in StdintDirs : IsPrefix(rs, x)}}

openOcdScriptsPath(ocd) ==
    join(join(join(dirname(dirname(ocd)), <<"share">>), <<"openocd">>), <<"scripts">>)

\* words that start with "-"
DashWords == {"-f", "-c"}
startswithDash(arg) == arg # <<>> /\ arg[1] \in DashWords

RECURSIVE keepIndices(_, _, _)
keepIndices(a, keep, j) ==
    IF j > Len(a) THEN <<>>
    ELSE (IF j \in keep THEN <<a[j]>> ELSE <<>>) \o keepIndices(a, keep, j + 1)

\* pathWithForwardSlashes(config).split(): normpath sees the entered line as one
\* path, so a "." is dropped where it is a whole component of the line (not glued
\* by a blank to the neighbouring argument), and the empty line becomes ".".
\* A line is the sequence of its blank-separated arguments.
configArgs(line) ==
    LET n == Len(line)
        whole(k, j) == (j > 1 \/ k = 1) /\ (j < Len(line[k]) \/ k = n)
        arg(k) == keepIndices(line[k],
                              {j \in 1..Len(line[k]) : ~(line[k][j] = "." /\ whole(k, j))}, 1)
        args == [k \in 1..n |-> arg(k)]
        kept == SelectSeq(args, LAMBDA a : a # <<>>)
    IN  IF kept = <<>> THEN << <<".">> >> ELSE kept

\* the for loop of getOpenOcdConfig over the arguments of one entered line:
\* [ok |-> the loop ended without break, paths |-> configPaths]
RECURSIVE configLoop(_, _, _)
configLoop(scripts, args, configPaths) ==
    IF args = <<>> THEN [ok |-> TRUE, paths |-> configPaths]
    ELSE IF pathExists(slash(scripts, Head(args)))
        THEN configLoop(scripts, Tail(args), Append(configPaths, slash(scripts, Head(args))))
    ELSE IF startswithDash(Head(args))
        THEN configLoop(scripts, Tail(args), configPaths)
    ELSE [ok |-> FALSE, paths |-> configPaths]

getOpenOcdConfig(ocd, line) == configLoop(openOcdScriptsPath(ocd), configArgs(line), <<>>)

\* getStm32SvdFile: whether the entered name ends the loop
svdFileAccepted(svd, fileName) ==
    /\ fileName # <<"ls">>
    /\ IF fileName = <<>> THEN existsDir(svd) \/ (svd = <<>>)
       ELSE pathExists(slash(svd, fileName))

\* a plausible slip: the OS family not consulted
pythonCommand_Fixed == <<"python3">>

\* getPython3Path: the command for the detected OS
pythonCommand == IF detectOS \in {"unix", "wsl"} THEN <<"python3">> ELSE <<"python">>

\* getUserPath: what one entered line (its quotes removed) becomes before it is
\* probed
userPath(typed) == pathWithForwardSlashes(typed.text)

\* getYesNoAnswer: resp.lower()
lower(resp) == IF resp = "Y" THEN "y" ELSE IF resp = "N" THEN "n" ELSE resp

(***************************************************************************)
(* UpdatePaths.toolsList (updatePaths.py 23-29)                            *)
(***************************************************************************)
SvdDefault == SubSeq(workspacePath, 1, Len(workspacePath) - 1)
                  \o <<workspacePath[Len(workspacePath)] \o "SVD">>

\* a plausible slip: the last tuple written with updated = True
toolsList_UpdatedSet ==
    << [path |-> gccExePath, default |-> <<"arm-none-eabi-gcc">>, updated |-> FALSE],
       [path |-> buildToolsPath, default |-> <<"make">>, updated |-> FALSE],
       [path |-> openOcdPath, default |-> <<"openocd">>, updated |-> FALSE],
       [path |-> stm32SvdPath, default |-> SvdDefault, updated |-> TRUE] >>

toolsList ==
    << [path |-> gccExePath, default |-> <<"arm-none-eabi-gcc">>, updated |-> FALSE],
       [path |-> buildToolsPath, default |-> <<"make">>, updated |-> FALSE],
       [path |-> openOcdPath, default |-> <<"openocd">>, updated |-> FALSE],
       [path |-> stm32SvdPath, default |-> SvdDefault, updated |-> FALSE] >>

TrackedTools == {toolsList[i].path : i \in 1..Len(toolsList)}

\* the field verifyExistingPaths recomputes after the tool's path was updated
DerivedField(path) ==
    IF path = gccExePath THEN gccInludePath
    ELSE IF path = openOcdPath THEN openOcdConfig
    ELSE IF path = stm32SvdPath THEN stm32SvdFile
    ELSE ""

(***************************************************************************)
(* Worlds: the machines the scripts are run on.                            *)
(***************************************************************************)
World(os, gccOnPath, python, ioc, descWritable, cacheWritable, cacheRemovable) ==
    [os |-> os, gccOnPath |-> gccOnPath, python |-> python, ioc |-> ioc,
     descWritable |-> descWritable, cacheWritable |-> cacheWritable,
     cacheRemovable |-> cacheRemovable]

Worlds ==
    { World("unix", TRUE, TRUE, <<"one">>, TRUE, TRUE, TRUE),
      World("unix", FALSE, TRUE, <<>>, TRUE, TRUE, TRUE),
      World("unix", TRUE, FALSE, <<"one", "two">>, TRUE, TRUE, TRUE),
      World("windows", TRUE, TRUE, <<"one">>, TRUE, FALSE, FALSE),
      World("unix", FALSE, TRUE, <<"one">>, FALSE, TRUE, TRUE),
      World("wsl", TRUE, TRUE, <<"one">>, TRUE, TRUE, TRUE),
      World("java", TRUE, TRUE, <<"one">>, TRUE, TRUE, TRUE) }

(***************************************************************************)
(* Documents.  A file is absent, corrupt (it does not parse) or holds a    *)
(* JSON object.                                                            *)
(***************************************************************************)
Absent == [kind |-> "absent", data |-> EmptyDict]
Corrupt == [kind |-> "corrupt", data |-> EmptyDict]
Json(d) == [kind |-> "json", data |-> d]

\* templateStrings.buildDataTemplate: every field present and empty
buildDataTemplate ==
    [k \in ToolFields \cup FactFields \cup {targetExecutablePath} |-> <<>>]

\* what updateMakefile's getMakefileData returns for this workspace
makefileData ==
    [k \in FactFields \cup {"projectName"} |->
        IF k = "cSources" THEN << <<"Src", "main.c">>, <<"Src", "it.c">> >>
        ELSE IF k = "cDefines" THEN << <<"-DSTM32F0">> >>
        ELSE IF k = "buildDir" THEN <<"build">>
        ELSE IF k = "projectName" THEN <<"blinky">>
        ELSE <<>>]

GoodTools ==
    [k \in ToolFields |->
        IF k = gccExePath THEN GccExe
        ELSE IF k = gccInludePath THEN GccInclude
        ELSE IF k = buildToolsPath THEN MakeExe
        ELSE IF k = pythonPath THEN <<"python3">>
        ELSE IF k = openOcdPath THEN OcdExe
        ELSE IF k = openOcdConfig THEN << OcdScripts \o <<"target", "stm32.cfg">> >>
        ELSE IF k = stm32SvdPath THEN SvdDir
        ELSE <<"f0.svd">>]

\* a descriptor as an earlier version of the scripts left it, run when the
\* workspace root held the one project file "one"
OldDescriptor(tools) ==
    tools @@ [k \in {"VERSION"} |-> <<"1.3">>]
          @@ [k \in {cubeMxProjectPath} |-> workspacePath \o <<"one">>]
          @@ buildDataTemplate

InitialDescriptors ==
    { Absent,
      Corrupt,
      Json(buildDataTemplate),
      Json(OldDescriptor(GoodTools)),
      \* paths that no longer exist
      Json(OldDescriptor([GoodTools EXCEPT ![gccExePath] = Nowhere,
                                           ![openOcdPath] = Nowhere])),
      \* keys removed by hand
      Json(Without(OldDescriptor(GoodTools), {gccExePath, stm32SvdFile})),
      \* valid paths whose derived fields are stale
      Json(OldDescriptor([GoodTools EXCEPT ![gccInludePath] = Nowhere,
                                           ![stm32SvdFile] = <<"gone.svd">>])),
      \* other valid paths than the cache holds
      Json(OldDescriptor([GoodTools EXCEPT ![gccExePath] = NoLibGccExe,
                                           ![buildToolsPath] = <<"make">>])) }

About ==
    [k \in {"ABOUT1", "ABOUT2"} |->
        IF k = "ABOUT1"
            THEN <<"Common tools paths that are automatically filled in buildData.json.">>
            ELSE <<"Delete/correct this file if paths change on system.">>]

InitialCaches ==
    { Absent,
      Corrupt,
      Json(About @@ GoodTools),
      \* an older cache: one path gone, one stale derived field, a foreign entry
      Json([k \in {"legacy"} |-> <<"x">>] @@ About
           @@ [GoodTools EXCEPT ![openOcdPath] = Nowhere,
                                ![gccInludePath] = Nowhere]),
      \* a JSON object that lacks one of the eight fields
      Json(About @@ Without(GoodTools, {stm32SvdFile})) }

(***************************************************************************)
(* What the operator may type at each prompt.                              *)
(***************************************************************************)
Answers == {"y", "Y", "n", "N", "x"}

Typed(text) == [text |-> text]

EntriesFor(path) ==
    IF path = gccExePath
        THEN {Typed(<<"/", "tc", ".", "bin", "arm-none-eabi-gcc">>), Typed(NoLibGccExe),
              Typed(<<"arm-none-eabi-gcc">>), Typed(Nowhere), Typed(<<>>)}
    ELSE IF path = buildToolsPath
        THEN {Typed(MakeExe), Typed(Nowhere)}
    ELSE IF path = openOcdPath
        THEN {Typed(OcdExe), Typed(Nowhere)}
    ELSE IF path = stm32SvdPath
        THEN {Typed(SvdDir), Typed(Nowhere)}
    ELSE {Typed(AltPython), Typed(Nowhere)}

ConfigLines ==
    { <<>>,
      << <<"-f">>, <<"target", "stm32.cfg">> >>,
      << <<"target", "stm32.cfg">>, <<"nope.cfg">> >>,
      << <<".", "target", "stm32.cfg">> >> }

SvdFileNames == { <<"f0.svd">>, <<"ls">>, <<>>, <<"nope.svd">> }

(***************************************************************************)
(* Initial state: a machine, the two documents as some earlier activity    *)
(* left them, and no script running.                                       *)
(***************************************************************************)
NotAsked == [t \in TrackedTools |-> <<>>]

\* the two runs of the concurrent scenario
Procs == {1, 2}

\* no second run: the scripts run one at a time
NoRace ==
    [proc |-> [p \in Procs |-> [pc |-> "idle", data |-> EmptyDict, handle |-> "none"]],
     last |-> EmptyDict,
     size |-> 0]

Init ==
    /\ env \in Worlds
    /\ descFile \in InitialDescriptors
    /\ cacheFile \in InitialCaches
    /\ pc = "idle"
    /\ entry = "build"
    /\ buildData = EmptyDict
    /\ toolsPathsData = EmptyDict
    /\ request = FALSE
    /\ toolIx = 1
    /\ updated = FALSE
    /\ cubeMxProjectFilePath = <<>>
    /\ out = {}
    /\ runs = 0
    /\ passStart = EmptyDict
    /\ asked = NotAsked
    /\ derivedFrom = NotAsked
    /\ prev = [ok |-> FALSE, desc |-> Absent, cache |-> Absent, entry |-> "build"]
    /\ noop = TRUE
    /\ race = NoRace

Stopped == pc \in {"idle", "done", "quit", "crashed"}

(***************************************************************************)
(* utilities.verifyFolderStructure, the first call of both scripts.        *)
(* Exactly one '*.code-workspace' file and the Makefile are taken to exist.*)
(***************************************************************************)
VerifyFolderStructure(e) ==
    /\ Stopped
    /\ runs < MaxRuns
    /\ runs' = runs + 1
    /\ entry' = e
    /\ prev' = [ok |-> pc = "done", desc |-> descFile, cache |-> cacheFile, entry |-> entry]
    /\ buildData' = EmptyDict
    /\ toolsPathsData' = EmptyDict
    /\ request' = FALSE
    /\ toolIx' = 1
    /\ updated' = FALSE
    /\ passStart' = EmptyDict
    /\ asked' = NotAsked
    /\ derivedFrom' = NotAsked
    /\ noop' = TRUE
    /\ IF detectOS \in {"windows", "unix"}
        THEN /\ pc' = "checkBuildDataFile"
             /\ cubeMxProjectFilePath' =
                    IF Len(env.ioc) = 1 THEN workspacePath \o <<env.ioc[1]>> ELSE <<>>
             /\ out' = IF Len(env.ioc) = 1
                           THEN {"One STM32CubeMX file found"}
                           ELSE {"WARNING: None or more than one STM32CubeMX files found."}
        ELSE \* vsCodeSettingsFolderPath is not assigned: UnboundLocalError
             /\ pc' = "crashed"
             /\ cubeMxProjectFilePath' = <<>>
             /\ out' = {"UnboundLocalError"}
    /\ UNCHANGED <<race, env, descFile, cacheFile>>

(***************************************************************************)
(* BuildData.prepareBuildData, call by call                                *)
(***************************************************************************)
\* a plausible slip: an empty object written instead of the template
createBuildDataFile_Empty == Json(EmptyDict)

\* a plausible slip: the invalid file reported and left as it is
createBuildDataFile_Untouched == descFile

createBuildDataFile == Json(buildDataTemplate)

CheckBuildDataFile ==
    /\ pc = "checkBuildDataFile"
    /\ IF descFile.kind = "json"
        THEN /\ descFile' = descFile
             /\ pc' = "getBuildData"
             /\ out' = out \cup {"Existing 'buildData.json' file found."}
        ELSE IF env.descWritable
            THEN /\ descFile' = createBuildDataFile
                 /\ pc' = "getBuildData"
                 /\ out' = out \cup {"New 'buildData.json' file created."}
                        \cup (IF descFile.kind = "corrupt"
                                 THEN {"Invalid 'buildData.json' file. Creating new one."}
                                 ELSE {})
            ELSE /\ descFile' = descFile
                 /\ pc' = "quit"
                 /\ out' = out \cup {"ERROR creating new 'buildData.json' file"}
    /\ UNCHANGED <<race, env, cacheFile, entry, buildData, toolsPathsData, request, toolIx,
                   updated, cubeMxProjectFilePath, runs, passStart, asked,
                   derivedFrom, prev, noop>>

getBuildData == descFile.data

GetBuildData ==
    /\ pc = "getBuildData"
    /\ buildData' = getBuildData
    /\ pc' = "checkToolsPathFile"
    /\ UNCHANGED <<race, env, descFile, cacheFile, entry, toolsPathsData, request, toolIx,
                   updated, cubeMxProjectFilePath, out, runs, passStart, asked,
                   derivedFrom, prev, noop>>

\* a plausible slip: the file reported as deleted but left in place
removeToolsPaths_Kept == cacheFile

\* os.remove(utils.toolsPaths) in checkToolsPathFile
removeToolsPaths == IF env.cacheRemovable THEN Absent ELSE cacheFile

CheckToolsPathFile ==
    /\ pc = "checkToolsPathFile"
    /\ IF cacheFile.kind = "absent"
        THEN /\ cacheFile' = cacheFile
             /\ pc' = "verifyExistingPaths"
             /\ out' = out
        ELSE IF cacheFile.kind = "json"
            THEN /\ cacheFile' = cacheFile
                 /\ pc' = "addToolsPathsData"
                 /\ out' = out \cup {"Valid 'toolsPaths.json' file found."}
            ELSE /\ cacheFile' = removeToolsPaths
                 /\ pc' = "verifyExistingPaths"
                 /\ out' = out \cup {"Invalid 'toolsPaths.json' file."}
                        \cup (IF env.cacheRemovable
                                 THEN {"Deleted."}
                                 ELSE {"Error deleting 'toolsPaths.json'."})
    /\ UNCHANGED <<race, env, descFile, entry, buildData, toolsPathsData, request, toolIx,
                   updated, cubeMxProjectFilePath, runs, passStart, asked,
                   derivedFrom, prev, noop>>

\* the precedence the specification describes: a stored path that passes the
\* probe is kept
addToolsPathsData_KeepValid(bd, tp) ==
    [k \in (DOMAIN bd) \cup ToolFields |->
        IF k \in ToolFields
            THEN (IF k \in {gccExePath, buildToolsPath, openOcdPath, stm32SvdPath}
                     /\ Has(bd, k) /\ pathExists(bd[k])
                     THEN bd[k] ELSE tp[k])
            ELSE bd[k]]

addToolsPathsData(bd, tp) ==
    [k \in (DOMAIN bd) \cup ToolFields |-> IF k \in ToolFields THEN tp[k] ELSE bd[k]]

AddToolsPathsData ==
    /\ pc = "addToolsPathsData"
    /\ toolsPathsData' = cacheFile.data
    /\ IF ToolFields \subseteq DOMAIN cacheFile.data
        THEN /\ buildData' = addToolsPathsData(buildData, cacheFile.data)
             /\ pc' = "verifyExistingPaths"
             /\ out' = out
        ELSE \* toolsPathsData[...] raises KeyError, nothing catches it
             /\ buildData' = buildData
             /\ pc' = "crashed"
             /\ out' = out \cup {"KeyError"}
    /\ UNCHANGED <<race, env, descFile, cacheFile, entry, request, toolIx, updated,
                   cubeMxProjectFilePath, runs, passStart, asked, derivedFrom,
                   prev, noop>>

(***************************************************************************)
(* UpdatePaths.verifyExistingPaths: one pass over toolsList.  Every call   *)
(* of input() is a step of its own.                                        *)
(***************************************************************************)
VerifyExistingPaths ==
    /\ \/ pc = "verifyExistingPaths" /\ request' = FALSE
       \/ pc = "prepared" /\ entry = "paths" /\ request' = TRUE
    /\ pc' = "probe"
    /\ toolIx' = 1
    /\ updated' = FALSE
    /\ passStart' = buildData
    /\ asked' = NotAsked
    /\ derivedFrom' = NotAsked
    /\ UNCHANGED <<race, env, descFile, cacheFile, entry, buildData, toolsPathsData,
                   cubeMxProjectFilePath, out, runs, prev, noop>>

tool == toolsList[toolIx]

\* updatePath up to its first prompt: the default is offered when it exists
updatePathPrompt(t) == IF pathExists(t.default) THEN "askDefault" ELSE "askPath"

\* a plausible slip: the command stored, not the location which() reports
pathDefault_Command(t) == t.default

\* the path updatePath offers: which(default), or default when that is None
pathDefault(t) == IF which(t.default) = <<>> THEN t.default ELSE which(t.default)

\* a plausible slip: the key is looked up and the probe forgotten
storedPathValid_NoProbe(bd, path) == Has(bd, path)

\* a plausible slip: a missing key taken as nothing to verify
storedPathValid_MissingSkipped(bd, path) == ~Has(bd, path) \/ pathExists(bd[path])

\* lines 40-41: the stored value is there and passes the probe
storedPathValid(bd, path) == Has(bd, path) /\ pathExists(bd[path])

Probe ==
    /\ pc = "probe"
    /\ IF storedPathValid(buildData, tool.path)
        THEN IF request
                THEN /\ pc' = "askUpdate"
                     /\ asked' = [asked EXCEPT ![tool.path] = Append(@, "update")]
                ELSE /\ pc' = "derive"
                     /\ asked' = asked
        ELSE /\ pc' = updatePathPrompt(tool)
             /\ asked' = [asked EXCEPT ![tool.path] = Append(@, "updatePath")]
    /\ updated' = tool.updated
    /\ UNCHANGED <<race, env, descFile, cacheFile, entry, buildData, toolsPathsData, request,
                   toolIx, cubeMxProjectFilePath, out, runs, passStart, derivedFrom,
                   prev, noop>>

\* a plausible slip: the question is put and its answer ignored
AnswerUpdate_Ignored(resp) ==
    /\ pc = "askUpdate"
    /\ IF lower(resp) \in {"y", "n"}
        THEN /\ pc' = updatePathPrompt(tool)
             /\ asked' = [asked EXCEPT ![tool.path] =
                              @ \o <<IF lower(resp) = "y" THEN "yes" ELSE "no", "updatePath">>]
             /\ noop' = FALSE
        ELSE UNCHANGED <<pc, asked, noop>>
    /\ UNCHANGED <<race, env, descFile, cacheFile, entry, buildData, toolsPathsData, request,
                   toolIx, updated, cubeMxProjectFilePath, out, runs, passStart,
                   derivedFrom, prev>>

\* getYesNoAnswer("Update existing path?")
AnswerUpdate(resp) ==
    /\ pc = "askUpdate"
    /\ IF lower(resp) = "y"
        THEN /\ pc' = updatePathPrompt(tool)
             /\ asked' = [asked EXCEPT ![tool.path] = @ \o <<"yes", "updatePath">>]
             /\ noop' = FALSE
        ELSE /\ pc' = IF lower(resp) = "n" THEN "derive" ELSE pc
             /\ asked' = IF lower(resp) = "n"
                             THEN [asked EXCEPT ![tool.path] = Append(@, "no")]
                             ELSE asked
             /\ noop' = noop
    /\ UNCHANGED <<race, env, descFile, cacheFile, entry, buildData, toolsPathsData, request,
                   toolIx, updated, cubeMxProjectFilePath, out, runs, passStart,
                   derivedFrom, prev>>

\* getYesNoAnswer("Use this path?") in updatePath
AnswerDefault(resp) ==
    /\ pc = "askDefault"
    /\ IF lower(resp) = "y"
        THEN /\ buildData' = Put(buildData, tool.path, pathDefault(tool))
             /\ updated' = TRUE
             /\ pc' = "derive"
             /\ noop' = FALSE
             \* the log keeps the acceptance for the compiler only, whose
             \* header folder is derived from the location accepted
             /\ asked' = IF tool.path = gccExePath
                             THEN [asked EXCEPT ![tool.path] = Append(@, "default")]
                             ELSE asked
        ELSE /\ pc' = IF lower(resp) = "n" THEN "askPath" ELSE pc
             /\ UNCHANGED <<buildData, updated, noop, asked>>
    /\ UNCHANGED <<race, env, descFile, cacheFile, entry, toolsPathsData, request, toolIx,
                   cubeMxProjectFilePath, out, runs, passStart, derivedFrom, prev>>

\* one round of the loop of getUserPath, called by updatePath
EnterPath(typed) ==
    /\ pc = "askPath"
    /\ IF pathExists(userPath(typed))
        THEN /\ buildData' = Put(buildData, tool.path, userPath(typed))
             /\ updated' = TRUE
             /\ pc' = "derive"
             /\ noop' = FALSE
        ELSE \* "Path not valid", and the prompt is repeated
             UNCHANGED <<buildData, updated, pc, noop>>
    /\ UNCHANGED <<race, env, descFile, cacheFile, entry, toolsPathsData, request, toolIx,
                   cubeMxProjectFilePath, out, runs, passStart, asked, derivedFrom,
                   prev>>

\* a plausible slip: the derived fields are not recomputed
Derive_Skipped ==
    /\ pc = "derive"
    /\ pc' = "python"
    /\ UNCHANGED <<race, env, descFile, cacheFile, entry, buildData, toolsPathsData, request,
                   toolIx, updated, cubeMxProjectFilePath, out, runs, passStart, asked,
                   derivedFrom, prev, noop>>

\* lines 56-69: "validate derivative paths"
Derive ==
    /\ pc = "derive"
    /\ IF updated /\ tool.path = gccExePath
        THEN IF getGccIncludePath(buildData[gccExePath]) = {}
                THEN /\ pc' = "quit"
                     /\ out' = out \cup {"ERROR Unable to find 'include' subfolder"}
                     /\ UNCHANGED <<buildData, derivedFrom, asked>>
                ELSE /\ \E d \in getGccIncludePath(buildData[gccExePath]) :
                            buildData' = Put(buildData, gccInludePath, d)
                     /\ derivedFrom' = [derivedFrom EXCEPT ![gccExePath] = buildData[gccExePath]]
                     /\ pc' = "python"
                     /\ UNCHANGED <<out, asked>>
        ELSE /\ pc' = IF updated /\ tool.path = openOcdPath THEN "askConfig"
                      ELSE IF updated /\ tool.path = stm32SvdPath THEN "askSvd"
                      ELSE "python"
             /\ asked' = IF updated /\ tool.path \in {openOcdPath, stm32SvdPath}
                             THEN [asked EXCEPT ![tool.path] = Append(@, "derived")]
                             ELSE asked
             /\ UNCHANGED <<buildData, derivedFrom, out>>
    /\ UNCHANGED <<race, env, descFile, cacheFile, entry, toolsPathsData, request, toolIx,
                   updated, cubeMxProjectFilePath, runs, passStart, prev, noop>>

\* one round of the loop of getOpenOcdConfig
EnterConfig(line) ==
    /\ pc = "askConfig"
    /\ LET r == getOpenOcdConfig(buildData[openOcdPath], line)
       IN  IF r.ok
            THEN /\ buildData' = Put(buildData, openOcdConfig, r.paths)
                 /\ derivedFrom' = [derivedFrom EXCEPT ![openOcdPath] = buildData[openOcdPath]]
                 /\ pc' = "python"
                 /\ noop' = FALSE
            ELSE \* "Configuration invalid", and the prompt is repeated
                 UNCHANGED <<buildData, derivedFrom, pc, noop>>
    /\ UNCHANGED <<race, env, descFile, cacheFile, entry, toolsPathsData, request, toolIx,
                   updated, cubeMxProjectFilePath, out, runs, passStart, asked, prev>>

\* one round of the loop of getStm32SvdFile
EnterSvdFile(fileName) ==
    /\ pc = "askSvd"
    /\ IF svdFileAccepted(buildData[stm32SvdPath], fileName)
        THEN /\ buildData' = Put(buildData, stm32SvdFile, fileName)
             /\ derivedFrom' = [derivedFrom EXCEPT ![stm32SvdPath] = buildData[stm32SvdPath]]
             /\ pc' = "python"
             /\ noop' = FALSE
        ELSE \* the listing or "SVD File not found", and the prompt is repeated
             UNCHANGED <<buildData, derivedFrom, pc, noop>>
    /\ UNCHANGED <<race, env, descFile, cacheFile, entry, toolsPathsData, request, toolIx,
                   updated, cubeMxProjectFilePath, out, runs, passStart, asked, prev>>

\* the end of one iteration of the for loop
nextTool == IF toolIx < Len(toolsList) THEN "probe" ELSE "verified"

\* a plausible slip: the iteration does not move on to the next tuple
nextIx_Stuck == toolIx

nextIx == IF toolIx < Len(toolsList) THEN toolIx + 1 ELSE toolIx

\* lines 71-72: getPython3Path, up to its prompt
Python ==
    /\ pc = "python"
    /\ IF pathExists(pythonCommand)
        THEN /\ buildData' = Put(buildData, pythonPath, pythonCommand)
             /\ pc' = nextTool
             /\ toolIx' = nextIx
        ELSE \* "Python version 3 or later installation not detected"
             /\ pc' = "askPython"
             /\ UNCHANGED <<buildData, toolIx>>
    /\ UNCHANGED <<race, env, descFile, cacheFile, entry, toolsPathsData, request, updated,
                   cubeMxProjectFilePath, out, runs, passStart, asked, derivedFrom,
                   prev, noop>>

\* one round of the loop of getUserPath, called by getPython3Path
EnterPythonPath(typed) ==
    /\ pc = "askPython"
    /\ IF pathExists(userPath(typed))
        THEN /\ buildData' = Put(buildData, pythonPath, userPath(typed))
             /\ pc' = nextTool
             /\ toolIx' = nextIx
             /\ noop' = (noop /\ Has(buildData, pythonPath)
                              /\ buildData[pythonPath] = userPath(typed))
        ELSE \* "Path not valid", and the prompt is repeated
             UNCHANGED <<buildData, pc, toolIx, noop>>
    /\ UNCHANGED <<race, env, descFile, cacheFile, entry, toolsPathsData, request, updated,
                   cubeMxProjectFilePath, out, runs, passStart, asked, derivedFrom,
                   prev>>

(***************************************************************************)
(* Persistence and the rest of the two scripts                             *)
(***************************************************************************)
createUserToolsFile(bd) == Json(About @@ [k \in ToolFields |-> bd[k]])

\* data[...] = buildData[...] raises KeyError on a missing field and open() raises
\* when the file cannot be written: both end in the WARNING of the except clause
CreateUserToolsFile ==
    /\ \/ pc = "verified" /\ ~request /\ pc' = "prepared"
       \/ pc = "createUserToolsFile" /\ pc' = "done"
    /\ IF ToolFields \subseteq DOMAIN buildData /\ env.cacheWritable
        THEN /\ cacheFile' = createUserToolsFile(buildData)
             /\ out' = out \cup {"'toolsPaths.json' file updated!"}
        ELSE /\ cacheFile' = cacheFile
             /\ out' = out \cup {"WARNING: Exception error overwriting 'toolsPaths.json' file"}
    /\ asked' = NotAsked
    /\ derivedFrom' = NotAsked
    /\ UNCHANGED <<race, env, descFile, entry, buildData, toolsPathsData, request, toolIx,
                   updated, cubeMxProjectFilePath, runs, passStart, prev, noop>>

addCubeMxProjectPathToBuildData(bd) ==
    IF cubeMxProjectFilePath # <<>>
        THEN Put(bd, cubeMxProjectPath, cubeMxProjectFilePath)
        ELSE bd

AddCubeMxProjectPathToBuildData ==
    /\ pc = "prepared"
    /\ entry = "build"
    /\ buildData' = addCubeMxProjectPathToBuildData(buildData)
    /\ pc' = "addMakefileData"
    /\ UNCHANGED <<race, env, descFile, cacheFile, entry, toolsPathsData, request, toolIx,
                   updated, cubeMxProjectFilePath, out, runs, passStart, asked,
                   derivedFrom, prev, noop>>

\* the path the specification describes: not joined to the workspace
getBuildElfFilePath_Relative(buildDirPath, projectName) ==
    pathWithForwardSlashes(join(buildDirPath, <<projectName[1] \o ".elf">>))

getBuildElfFilePath(buildDirPath, projectName) ==
    pathWithForwardSlashes(
        join(join(workspacePath, buildDirPath), <<projectName[1] \o ".elf">>))

addMakefileDataToBuildDataFile(bd, mk) ==
    [k \in (DOMAIN bd) \cup FactFields \cup {targetExecutablePath} |->
        IF k \in FactFields THEN mk[k]
        ELSE IF k = targetExecutablePath
            THEN getBuildElfFilePath(mk["buildDir"], mk["projectName"])
        ELSE bd[k]]

AddMakefileDataToBuildDataFile ==
    /\ pc = "addMakefileData"
    /\ buildData' = addMakefileDataToBuildDataFile(buildData, makefileData)
    /\ pc' = "overwriteBuildDataFile"
    /\ UNCHANGED <<race, env, descFile, cacheFile, entry, toolsPathsData, request, toolIx,
                   updated, cubeMxProjectFilePath, out, runs, passStart, asked,
                   derivedFrom, prev, noop>>

version == <<"1.4">>

\* str(datetime.datetime.now()): the clock advances from run to run
now == <<runs>>

stamped(data) == Put(Put(data, "VERSION", version), "LAST_RUN", now)

\* a plausible slip: the exception raised after the data reached the file
failedOverwrite_Written == {[file |-> Json(stamped(buildData)), data |-> stamped(buildData)]}

\* what a failing overwriteBuildDataFile leaves behind: open() raised (nothing
\* is touched), or the write raised after truncate() (an empty file, and the
\* dictionary already stamped)
failedOverwrite ==
    {[file |-> descFile, data |-> buildData], [file |-> Corrupt, data |-> stamped(buildData)]}

OverwriteBuildDataFile ==
    /\ \/ pc = "overwriteBuildDataFile"
       \/ pc = "verified" /\ request
    /\ IF env.descWritable
        THEN /\ buildData' = stamped(buildData)
             /\ descFile' = Json(stamped(buildData))
             /\ pc' = IF entry = "paths" THEN "createUserToolsFile" ELSE "done"
             /\ out' = out \cup {"'buildData.json' file updated!"}
        ELSE /\ pc' = "quit"
             /\ out' = out \cup {"ERROR overwriting 'buildData.json' file"}
             /\ \E left \in failedOverwrite :
                    descFile' = left.file /\ buildData' = left.data
    /\ asked' = NotAsked
    /\ derivedFrom' = NotAsked
    /\ UNCHANGED <<race, env, cacheFile, entry, toolsPathsData, request, toolIx, updated,
                   cubeMxProjectFilePath, runs, passStart, prev, noop>>

Next ==
    \/ \E e \in {"build", "paths"} : VerifyFolderStructure(e)
    \/ CheckBuildDataFile
    \/ GetBuildData
    \/ CheckToolsPathFile
    \/ AddToolsPathsData
    \/ VerifyExistingPaths
    \/ Probe
    \/ \E resp \in Answers : AnswerUpdate(resp)
    \/ \E resp \in Answers : AnswerDefault(resp)
    \/ \E typed \in EntriesFor(tool.path) : EnterPath(typed)
    \/ Derive
    \/ \E line \in ConfigLines : EnterConfig(line)
    \/ \E fileName \in SvdFileNames : EnterSvdFile(fileName)
    \/ Python
    \/ \E typed \in EntriesFor(pythonPath) : EnterPythonPath(typed)
    \/ CreateUserToolsFile
    \/ AddCubeMxProjectPathToBuildData
    \/ AddMakefileDataToBuildDataFile
    \/ OverwriteBuildDataFile

Spec == Init /\ [][Next]_vars

(***************************************************************************)
(* Two runs at once.  Each run is followed through the four places where   *)
(* prepareBuildData touches the cache: checkToolsPathFile, the second read *)
(* of getToolsPathsData, and the open() and the write of                  *)
(* createUserToolsFile.  Nothing locks the file, so the steps of the two   *)
(* runs interleave freely.  open(path, 'w+') empties the file at once; the *)
(* text of json.dump stays in the file object's buffer until the with      *)
(* block closes it, and is then written from the handle's own offset 0     *)
(* over whatever the file holds by then.  A file removed while another run *)
(* holds it open is unlinked (POSIX): that run's text goes to a file that  *)
(* no path names any more.  The length of a text is counted in path        *)
(* components.                                                             *)
(***************************************************************************)
RECURSIVE SumLen(_)
SumLen(paths) == IF paths = <<>> THEN 0 ELSE Len(Head(paths)) + SumLen(Tail(paths))

\* the length of the text json.dump produces for the eight fields
Size(d) ==
    Len(d[gccExePath]) + Len(d[gccInludePath]) + Len(d[buildToolsPath])
    + Len(d[pythonPath]) + Len(d[openOcdPath]) + SumLen(d[openOcdConfig])
    + Len(d[stm32SvdPath]) + Len(d[stm32SvdFile])

\* what a pass may leave in buildData on this machine: texts of three lengths
RaceSnapshots ==
    {GoodTools,
     [GoodTools EXCEPT ![buildToolsPath] = <<"make">>],
     [GoodTools EXCEPT ![pythonPath] = AltPython]}

RaceInit ==
    /\ Init
    /\ env.os \in {"unix", "windows"}
    /\ env.descWritable
    /\ env.cacheWritable
    /\ descFile = Json(OldDescriptor(GoodTools))

Start(p) == [pc |-> "checkToolsPathFile", data |-> EmptyDict, handle |-> "none"]

\* both runs are started, one after the other, before either reaches the cache
StartBoth ==
    /\ pc = "idle"
    /\ race = NoRace
    /\ pc' = "racing"
    /\ race' = [proc |-> [p \in Procs |-> Start(p)],
                last |-> EmptyDict,
                size |-> IF cacheFile.kind = "json" /\ ToolFields \subseteq DOMAIN cacheFile.data
                             THEN Size(cacheFile.data) ELSE 0]
    /\ UNCHANGED <<env, descFile, cacheFile, entry, buildData, toolsPathsData, request,
                   toolIx, updated, cubeMxProjectFilePath, out, runs, passStart, asked,
                   derivedFrom, prev, noop>>

At(p, where) == pc = "racing" /\ race.proc[p].pc = where

Moved(p, where) == [race.proc EXCEPT ![p].pc = where]

\* os.remove of a file other runs hold open: their handles lose the path
Unlinked(p) ==
    [q \in Procs |->
        IF q # p /\ race.proc[q].handle = "open"
            THEN [race.proc[q] EXCEPT !.handle = "unlinked"]
            ELSE race.proc[q]]

\* checkToolsPathFile of run p
RaceCheckToolsPathFile(p) ==
    /\ At(p, "checkToolsPathFile")
    /\ IF cacheFile.kind = "absent"
        THEN /\ cacheFile' = cacheFile
             /\ race' = [race EXCEPT !.proc = Moved(p, "verifyExistingPaths")]
        ELSE IF cacheFile.kind = "json"
            THEN /\ cacheFile' = cacheFile
                 /\ race' = [race EXCEPT !.proc = Moved(p, "addToolsPathsData")]
            ELSE /\ cacheFile' = removeToolsPaths
                 /\ race' = [race EXCEPT
                                 !.proc = [Unlinked(p) EXCEPT ![p].pc = "verifyExistingPaths"],
                                 !.size = 0]
    /\ UNCHANGED <<env, descFile, pc, entry, buildData, toolsPathsData, request,
                   toolIx, updated, cubeMxProjectFilePath, out, runs, passStart, asked,
                   derivedFrom, prev, noop>>

\* getToolsPathsData of run p: the file is opened and parsed a second time, and
\* nothing catches what open() or json.load raise, nor the KeyError
RaceAddToolsPathsData(p) ==
    /\ At(p, "addToolsPathsData")
    /\ IF cacheFile.kind = "json" /\ ToolFields \subseteq DOMAIN cacheFile.data
        THEN race' = [race EXCEPT !.proc =
                          [Moved(p, "verifyExistingPaths") EXCEPT
                               ![p].data = [k \in ToolFields |-> cacheFile.data[k]]]]
        ELSE race' = [race EXCEPT !.proc = Moved(p, "crashed")]
    /\ UNCHANGED <<env, descFile, cacheFile, pc, entry, buildData, toolsPathsData, request,
                   toolIx, updated, cubeMxProjectFilePath, out, runs, passStart, asked,
                   derivedFrom, prev, noop>>

\* verifyExistingPaths of run p, as one step: the eight fields it returns
RaceVerifyExistingPaths(p, snapshot) ==
    /\ At(p, "verifyExistingPaths")
    /\ race' = [race EXCEPT !.proc =
                    [Moved(p, "createUserToolsFile") EXCEPT ![p].data = snapshot]]
    /\ UNCHANGED <<env, descFile, cacheFile, pc, entry, buildData, toolsPathsData, request,
                   toolIx, updated, cubeMxProjectFilePath, out, runs, passStart, asked,
                   derivedFrom, prev, noop>>

\* createUserToolsFile of run p, line 147: open(utils.toolsPaths, 'w+')
RaceOpen(p) ==
    /\ At(p, "createUserToolsFile")
    /\ cacheFile' = Corrupt
    /\ race' = [race EXCEPT !.proc = [Moved(p, "json.dump") EXCEPT ![p].handle = "open"],
                            !.size = 0]
    /\ UNCHANGED <<env, descFile, pc, entry, buildData, toolsPathsData, request,
                   toolIx, updated, cubeMxProjectFilePath, out, runs, passStart, asked,
                   derivedFrom, prev, noop>>

\* the file after a text of the given fields was written over its first bytes
Overwritten(data) ==
    IF race.size <= Size(data) THEN Json(About @@ data) ELSE Corrupt

\* createUserToolsFile of run p, line 148 and the end of the with block
RaceWrite(p) ==
    /\ At(p, "json.dump")
    /\ IF race.proc[p].handle = "open"
        THEN /\ cacheFile' = Overwritten(race.proc[p].data)
             /\ race' = [race EXCEPT
                             !.proc = [Moved(p, "done") EXCEPT ![p].handle = "none"],
                             !.last = race.proc[p].data,
                             !.size = IF race.size <= Size(race.proc[p].data)
                                          THEN Size(race.proc[p].data) ELSE race.size]
        ELSE /\ cacheFile' = cacheFile
             /\ race' = [race EXCEPT
                             !.proc = [Moved(p, "done") EXCEPT ![p].handle = "none"],
                             !.last = race.proc[p].data]
    /\ UNCHANGED <<env, descFile, pc, entry, buildData, toolsPathsData, request,
                   toolIx, updated, cubeMxProjectFilePath, out, runs, passStart, asked,
                   derivedFrom, prev, noop>>

\* sequences of runs that start with neither document on disk, so that every
\* document read was written by the scripts
FreshInit == Init /\ descFile = Absent /\ cacheFile = Absent

FreshSpec == FreshInit /\ [][Next]_vars

RaceNext ==
    \/ StartBoth
    \/ \E p \in Procs : RaceCheckToolsPathFile(p)
    \/ \E p \in Procs : RaceAddToolsPathsData(p)
    \/ \E p \in Procs : \E snapshot \in RaceSnapshots : RaceVerifyExistingPaths(p, snapshot)
    \/ \E p \in Procs : RaceOpen(p)
    \/ \E p \in Procs : RaceWrite(p)

RaceSpec == RaceInit /\ [][RaceNext]_vars

(***************************************************************************)
(* Properties                                                              *)
(***************************************************************************)
InPass == {"probe", "askUpdate", "askDefault", "askPath", "derive", "askConfig",
           "askSvd", "python", "askPython"}

\* a step taken inside the pass stays in it, returns from it or quits
PassStep == pc \in InPass => pc' \in (InPass \cup {"verified", "quit"})

\* C1: whenever verifyExistingPaths returns, every tracked tool's path passes
\* pathExists; a pass that does not return ends in printAndQuit.
C1_ReturnedPathsExist ==
    /\ [](pc = "verified" =>
            \A t \in TrackedTools : Has(buildData, t) /\ pathExists(buildData[t]))
    /\ [][PassStep]_vars

C1_Witness ==
    /\ pc = "verified"
    /\ Has(passStart, openOcdPath)
    /\ ~pathExists(passStart[openOcdPath])
    /\ pathExists(buildData[openOcdPath])
    /\ \E t \in TrackedTools : Has(passStart, t) /\ pathExists(passStart[t])

cacheLoaded == "Valid 'toolsPaths.json' file found." \in out

\* C2, as claimed: a stored descriptor path that passes the probe is the value
\* prepareBuildData returns, whatever the cache holds.
C2_DescriptorWins ==
    pc = "prepared" =>
        \A t \in TrackedTools :
            (Has(descFile.data, t) /\ pathExists(descFile.data[t]))
                => buildData[t] = descFile.data[t]

\* C2, as the code has it: a loaded cache replaces the descriptor's values
\* before validation, so a cache path that passes the probe is the value
\* returned; the descriptor's valid path is returned when no cache was loaded.
C2_CacheSeedsDescriptor ==
    pc = "prepared" =>
        \A t \in TrackedTools :
            IF cacheLoaded
                THEN pathExists(toolsPathsData[t]) => buildData[t] = toolsPathsData[t]
                ELSE (Has(descFile.data, t) /\ pathExists(descFile.data[t]))
                        => buildData[t] = descFile.data[t]

C2_Witness ==
    /\ pc = "prepared"
    /\ cacheLoaded
    /\ Has(descFile.data, gccExePath)
    /\ pathExists(descFile.data[gccExePath])
    /\ pathExists(toolsPathsData[gccExePath])
    /\ descFile.data[gccExePath] # toolsPathsData[gccExePath]
    /\ buildData[gccExePath] = toolsPathsData[gccExePath]

SameField(a, b, k) == (Has(a, k) <=> Has(b, k)) /\ (Has(a, k) => a[k] = b[k])

\* C3: in a pass with request = False a tool whose stored path passes the probe
\* keeps its path and its derived field, and no prompt is issued for it.
C3_ValidToolUntouched ==
    (pc \in InPass \cup {"verified"} /\ ~request) =>
        \A t \in TrackedTools :
            (Has(passStart, t) /\ pathExists(passStart[t])) =>
                /\ buildData[t] = passStart[t]
                /\ DerivedField(t) # "" => SameField(buildData, passStart, DerivedField(t))
                /\ asked[t] = <<>>

C3_Witness ==
    /\ pc = "verified"
    /\ ~request
    /\ Has(passStart, stm32SvdPath)
    /\ pathExists(passStart[stm32SvdPath])
    /\ asked[stm32SvdPath] = <<>>
    /\ asked[gccExePath] # <<>>
    /\ asked[openOcdPath] # <<>>

\* the derived field agrees with the path it belongs to
DerivedAgrees(bd, t) ==
    IF t = gccExePath
        THEN Has(bd, gccInludePath) /\ bd[gccInludePath] \in getGccIncludePath(bd[t])
    ELSE IF t = openOcdPath
        THEN /\ Has(bd, openOcdConfig)
             /\ \A i \in 1..Len(bd[openOcdConfig]) :
                    /\ IsPrefix(openOcdScriptsPath(bd[t]), bd[openOcdConfig][i])
                    /\ pathExists(bd[openOcdConfig][i])
    ELSE IF t = stm32SvdPath
        THEN Has(bd, stm32SvdFile) /\ svdFileAccepted(bd[t], bd[stm32SvdFile])
    ELSE TRUE

\* tools whose iteration of the loop has ended
Processed ==
    IF pc = "verified" THEN TrackedTools
    ELSE {toolsList[i].path : i \in 1..(toolIx - 1)}

\* C4: when the next tool is probed (or the pass has returned), every tool that
\* went through updatePath has had its derived field recomputed from the new
\* path; buildToolsPath has none.
C4_DerivedRecomputed ==
    pc \in {"probe", "verified"} =>
        \A t \in Processed :
            IF "updatePath" \in {asked[t][i] : i \in 1..Len(asked[t])}
                THEN IF DerivedField(t) = ""
                        THEN derivedFrom[t] = <<>>
                        ELSE derivedFrom[t] = buildData[t] /\ DerivedAgrees(buildData, t)
                ELSE derivedFrom[t] = <<>>

C4_Witness ==
    /\ pc = "probe"
    /\ toolIx = 4
    /\ derivedFrom[gccExePath] = GccExe
    /\ derivedFrom[openOcdPath] = OcdExe
    /\ "updatePath" \in {asked[buildToolsPath][i] : i \in 1..Len(asked[buildToolsPath])}
    /\ passStart[gccInludePath] # buildData[gccInludePath]

\* the existence check of one of the eight fields
FieldValid(bd, k) ==
    /\ Has(bd, k)
    /\ IF k = openOcdConfig
        THEN \A i \in 1..Len(bd[k]) : pathExists(bd[k][i])
       ELSE IF k = stm32SvdFile
        THEN Has(bd, stm32SvdPath) /\ pathExists(slash(bd[stm32SvdPath], bd[k]))
       ELSE pathExists(bd[k])

\* C5, as claimed: when prepareBuildData returns, each of the eight tool-path
\* fields passes the existence check.
C5_AllEightValid ==
    pc = "prepared" => \A k \in ToolFields : FieldValid(buildData, k)

HeaderAndTools == ToolFields \cup {"ABOUT1", "ABOUT2"}

\* the cache holds the two header entries and the eight fields of the descriptor
CacheMirrors(bd) ==
    /\ cacheFile.kind = "json"
    /\ DOMAIN cacheFile.data = HeaderAndTools
    /\ \A k \in ToolFields : Has(bd, k) /\ cacheFile.data[k] = bd[k]
    /\ cacheFile.data["ABOUT1"]
          = <<"Common tools paths that are automatically filled in buildData.json.">>
    /\ cacheFile.data["ABOUT2"] = <<"Delete/correct this file if paths change on system.">>

\* C6, as claimed: whenever prepareBuildData has returned, and whenever the
\* script has ended, the cache is exactly the two header entries and the eight
\* fields of the descriptor that was returned.
C6_CacheAlwaysRewritten ==
    pc \in {"prepared", "done"} => CacheMirrors(buildData)

\* What the code does keep: the cache is that full overwrite when the descriptor
\* holds all eight fields and the file can be written; otherwise the run still
\* completes and the file stays as checkToolsPathFile left it.
CacheRewrittenWhenWritable ==
    pc = "done" =>
        IF ToolFields \subseteq DOMAIN descFile.data /\ env.cacheWritable
            THEN CacheMirrors(descFile.data)
            ELSE cacheFile = (IF prev.cache.kind = "corrupt" /\ env.cacheRemovable
                                  THEN Absent ELSE prev.cache)

\* What the code does keep: the two documents are left as they were when the
\* cache file can be written.
IdempotentWhenCacheWritten ==
    (pc = "done" /\ prev.ok /\ prev.entry = entry /\ noop /\ env.cacheWritable) =>
        /\ Without(descFile.data, {"LAST_RUN"}) = Without(prev.desc.data, {"LAST_RUN"})
        /\ cacheFile = prev.cache

\* C7, as claimed: a run that follows a completed run of the same script, with answers that
\* change nothing, leaves both documents as they were, LAST_RUN apart.
C7_Idempotent ==
    (pc = "done" /\ prev.ok /\ prev.entry = entry /\ noop) =>
        /\ descFile.kind = prev.desc.kind
        /\ Without(descFile.data, {"LAST_RUN"}) = Without(prev.desc.data, {"LAST_RUN"})
        /\ cacheFile = prev.cache

cacheFoundInvalid == "Invalid 'toolsPaths.json' file." \in out

\* C8, as claimed: once checkToolsPathFile has found the cache unparsable and
\* returned, the file is gone.
C8_CorruptCacheGone ==
    (pc = "verifyExistingPaths" /\ cacheFoundInvalid) => cacheFile.kind = "absent"

\* C8, as the code has it: an unparsable cache is reported as absent and the
\* run goes on with the descriptor's data alone; the file is gone unless
\* os.remove itself failed, which is printed and leaves the file in place.
C8_CorruptCacheReportedAbsent ==
    /\ (pc = "verifyExistingPaths" /\ cacheFoundInvalid) =>
            /\ buildData = descFile.data
            /\ toolsPathsData = EmptyDict
            /\ IF "Deleted." \in out
                THEN cacheFile.kind = "absent"
                ELSE /\ "Error deleting 'toolsPaths.json'." \in out
                     /\ ~env.cacheRemovable
                     /\ cacheFile.kind = "corrupt"
    /\ pc = "addToolsPathsData" => (~cacheFoundInvalid /\ cacheFile.kind = "json")
    /\ (pc = "verifyExistingPaths" /\ prev.cache.kind = "corrupt") => cacheFoundInvalid

C8_Witness ==
    /\ pc = "verifyExistingPaths"
    /\ prev.cache.kind = "corrupt"
    /\ "Deleted." \in out
    /\ cacheFile.kind = "absent"

\* C9: after checkBuildDataFile and getBuildData, a descriptor that was absent
\* or unparsable has been replaced by the template, which is what getBuildData
\* returns; a descriptor that parsed is still the same file.
C9_DescriptorRegenerated ==
    pc = "checkToolsPathFile" =>
        IF prev.desc.kind = "json"
            THEN descFile = prev.desc /\ buildData = prev.desc.data
            ELSE /\ descFile.kind = "json"
                 /\ descFile.data = buildDataTemplate
                 /\ buildData = buildDataTemplate

C9_Witness ==
    /\ pc = "checkToolsPathFile"
    /\ prev.desc.kind = "corrupt"
    /\ buildData = buildDataTemplate
    /\ descFile.kind = "json"

\* C10, as claimed: a cache that parses but lacks one of the eight fields never
\* ends the run.
C10_PartialCacheNonFatal ==
    cacheLoaded => pc # "crashed"

\* no folder below <install root>/lib/gcc/arm-none-eabi holds stdint.h
NoHeaderDir(gcc) ==
    ~\E d \in Directories :
        /\ IsPrefix(resolve(gccSearchPath(gcc)), d)
        /\ Append(d, "stdint.h") \in Files

gccFatal == "ERROR Unable to find 'include' subfolder" \in out

\* the document holds this compiler path
HoldsGcc(doc, gcc) ==
    doc.kind = "json" /\ Has(doc.data, gccExePath) /\ doc.data[gccExePath] = gcc

\* no step of a pass of verifyExistingPaths writes a document
PassWritesNothing == pc \in InPass => UNCHANGED <<descFile, cacheFile>>

\* C11: once the compiler path has been re-resolved to a toolchain without a
\* stdint.h folder the pass can only end in printAndQuit (exit status 1), and
\* the pass has written neither document: a document holds the new path only
\* if it held it before the run or the pass started from it.
C11_GccFatalPersistsNothing ==
    /\ []((pc \in InPass \cup {"quit"} /\ updated /\ tool.path = gccExePath
              /\ NoHeaderDir(buildData[gccExePath])) =>
            /\ pc \in {"derive", "quit"}
            /\ pc = "quit" =>
                /\ gccFatal
                /\ HoldsGcc(descFile, buildData[gccExePath])
                      => HoldsGcc(prev.desc, buildData[gccExePath])
                /\ HoldsGcc(cacheFile, buildData[gccExePath])
                      => \/ HoldsGcc(prev.cache, buildData[gccExePath])
                         \/ HoldsGcc(Json(passStart), buildData[gccExePath]))
    /\ [][PassWritesNothing]_vars

C11_Witness ==
    /\ pc = "quit"
    /\ gccFatal
    /\ buildData[gccExePath] = NoLibGccExe
    /\ descFile.kind = "json"
    /\ cacheFile.kind = "json"
    /\ ~HoldsGcc(descFile, NoLibGccExe)
    /\ ~HoldsGcc(cacheFile, NoLibGccExe)

overwriteFailed == pc = "quit" /\ "ERROR overwriting 'buildData.json' file" \in out

cacheWritten == "'toolsPaths.json' file updated!" \in out

\* the value of a tool path after getBuildData and addToolsPathsData of this run
\* (<<>> when there was none)
Loaded(t) ==
    IF cacheLoaded THEN toolsPathsData[t]
    ELSE IF prev.desc.kind = "json"
        THEN (IF Has(prev.desc.data, t) THEN prev.desc.data[t] ELSE <<>>)
    ELSE buildDataTemplate[t]

\* the tool's path was resolved to a new value during this run
ResolvedInRun(t) == Has(buildData, t) /\ buildData[t] # Loaded(t)

HoldsField(doc, k, v) == doc.kind = "json" /\ Has(doc.data, k) /\ doc.data[k] = v

\* the document holds the tool's present path and did not before the run
PersistedByRun(doc, before, t) ==
    HoldsField(doc, t, buildData[t]) /\ ~HoldsField(before, t, buildData[t])

Count(log, what) == Cardinality({i \in 1..Len(log) : log[i] = what})

\* C13: at the end of a pass with request = True every tool whose path passed
\* the probe has been asked once whether to update it; after "no" its path and
\* derived field are those of the start of the pass and nothing else was asked;
\* after "yes" it went through updatePath once, its derived field was
\* recomputed from the new path, and the new path passes the probe.
C13_AskedOncePerValidTool ==
    (pc = "verified" /\ request) =>
        \A t \in TrackedTools :
            storedPathValid(passStart, t) =>
                /\ Count(asked[t], "update") = 1
                /\ Count(asked[t], "yes") + Count(asked[t], "no") = 1
                /\ IF Count(asked[t], "no") = 1
                    THEN /\ asked[t] = <<"update", "no">>
                         /\ buildData[t] = passStart[t]
                         /\ DerivedField(t) # ""
                               => SameField(buildData, passStart, DerivedField(t))
                         /\ derivedFrom[t] = <<>>
                    ELSE /\ Count(asked[t], "updatePath") = 1
                         /\ pathExists(buildData[t])
                         /\ DerivedField(t) # ""
                               => (derivedFrom[t] = buildData[t] /\ DerivedAgrees(buildData, t))

C13_Witness ==
    /\ pc = "verified"
    /\ request
    /\ asked[buildToolsPath] = <<"update", "no">>
    /\ asked[stm32SvdPath] = <<"update", "no">>
    /\ Count(asked[gccExePath], "yes") = 1
    /\ Count(asked[openOcdPath], "yes") = 1
    /\ buildData[openOcdConfig] # passStart[openOcdConfig]

\* the interpreter command of the machine's OS family
OsPython == IF env.os \in {"unix", "wsl"} THEN <<"python3">> ELSE <<"python">>

\* C14, as claimed: when verifyExistingPaths returns, pythonPath is the command
\* of the OS family.
C14_PythonFixedByOs ==
    pc = "verified" => (Has(buildData, pythonPath) /\ buildData[pythonPath] = OsPython)

\* C14, as the code has it: pythonPath is the command of the OS family whenever
\* that command passes the probe, whatever the cache or the descriptor held;
\* when it does not, pythonPath is an entry of the operator that passes the
\* probe.
C14_PythonFromOsOrOperator ==
    pc = "verified" =>
        /\ Has(buildData, pythonPath)
        /\ IF pathExists(OsPython)
            THEN buildData[pythonPath] = OsPython
            ELSE /\ pathExists(buildData[pythonPath])
                 /\ \E typed \in EntriesFor(pythonPath) :
                        buildData[pythonPath] = userPath(typed)

C14_Witness ==
    /\ pc = "verified"
    /\ env.os = "windows"
    /\ Has(passStart, pythonPath)
    /\ passStart[pythonPath] = <<"python3">>
    /\ pathExists(passStart[pythonPath])
    /\ buildData[pythonPath] = <<"python">>

\* the stored compiler path failed the probe and the operator accepted the
\* default that updatePath offered
gccDefaultAccepted ==
    /\ pc \in InPass \cup {"verified"}
    /\ ~storedPathValid(passStart, gccExePath)
    /\ Count(asked[gccExePath], "default") = 1

\* C15: after the operator accepted the default arm-none-eabi-gcc for a stored
\* compiler path that failed the probe, gccExePath is the location of the
\* command on the search path (absolute, not the bare name), and once the
\* iteration has passed the derived-field block gccInludePath is recomputed
\* from that location.
C15_DefaultGccResolved ==
    gccDefaultAccepted =>
        /\ IsAbs(buildData[gccExePath])
        /\ buildData[gccExePath] # <<"arm-none-eabi-gcc">>
        /\ buildData[gccExePath] \in Executables
        /\ \E i \in 1..Len(SearchPath) :
               buildData[gccExePath] = SearchPath[i] \o <<"arm-none-eabi-gcc">>
        /\ (pc # "derive" \/ tool.path # gccExePath) =>
               /\ derivedFrom[gccExePath] = buildData[gccExePath]
               /\ DerivedAgrees(buildData, gccExePath)

C15_Witness ==
    /\ pc = "verified"
    /\ gccDefaultAccepted
    /\ Has(passStart, gccExePath)
    /\ passStart[gccExePath] = Nowhere
    /\ buildData[gccExePath] = GccExe
    /\ buildData[gccInludePath] = GccInclude

\* updateBuildData.py has completed on a descriptor that was missing or did not
\* parse, with a cache that was loaded and holds a compiler path that passes the
\* probe
coldDescriptorWarmCache ==
    /\ pc = "done"
    /\ entry = "build"
    /\ prev.desc.kind \in {"absent", "corrupt"}
    /\ cacheLoaded
    /\ pathExists(toolsPathsData[gccExePath])

\* <projectName>.elf
elfFile == <<makefileData["projectName"][1] \o ".elf">>

factsVerbatim ==
    /\ descFile.kind = "json"
    /\ descFile.data[gccExePath] = toolsPathsData[gccExePath]
    /\ descFile.data["cSources"] = makefileData["cSources"]
    /\ descFile.data["cDefines"] = makefileData["cDefines"]

\* C16, as claimed: in that scenario the descriptor written holds the cache's
\* compiler path, the sources and defines of the Makefile, and
\* targetExecutablePath = <buildDir>/<projectName>.elf.
C16_ElfUnderBuildDir ==
    coldDescriptorWarmCache =>
        /\ factsVerbatim
        /\ descFile.data[targetExecutablePath] = makefileData["buildDir"] \o elfFile

\* C16, as the code has it: targetExecutablePath is
\* <workspace>/<buildDir>/<projectName>.elf.
C16_ElfUnderWorkspace ==
    coldDescriptorWarmCache =>
        /\ factsVerbatim
        /\ descFile.data[targetExecutablePath]
              = workspacePath \o makefileData["buildDir"] \o elfFile

C16_Witness ==
    /\ coldDescriptorWarmCache
    /\ prev.desc.kind = "absent"
    /\ descFile.data[gccExePath] = GccExe
    /\ Len(descFile.data["cSources"]) = 2
    /\ Len(descFile.data["cDefines"]) = 1
    /\ descFile.data[targetExecutablePath] = <<"/", "ws", "build", "blinky.elf">>

\* the files a sequence of paths denotes
Resolved(paths) == [i \in 1..Len(paths) |-> resolve(paths[i])]

\* the fragments of an entered line that are not flags
NonFlags(line) == SelectSeq(line, LAMBDA a : ~startswithDash(a))

\* the line is one getOpenOcdConfig should accept, and config is what it should
\* return for it
AcceptedAs(line, scripts, config) ==
    /\ \A i \in 1..Len(line) : startswithDash(line[i]) \/ exists(scripts \o line[i])
    /\ Resolved(config) = Resolved([i \in 1..Len(NonFlags(line)) |-> scripts \o NonFlags(line)[i]])

\* C17, as claimed: the configuration stored by getOpenOcdConfig in this pass
\* is that of one entered line whose fragments are flags or files under the
\* scripts folder, and holds exactly the non-flag fragments of that line.
C17_ConfigIsTheAcceptedLine ==
    (pc \in InPass \cup {"verified"} /\ derivedFrom[openOcdPath] # <<>>) =>
        \E line \in ConfigLines :
            AcceptedAs(line, openOcdScriptsPath(buildData[openOcdPath]),
                       buildData[openOcdConfig])

\* the name is one of an existing file inside the folder
NamesFileIn(svd, fileName) ==
    /\ fileName \notin {<<>>, <<"ls">>}
    /\ resolve(svd \o fileName) \in Files

\* C18, as claimed: the name stored by getStm32SvdFile in this pass is that of
\* an existing file inside the SVD folder; the listing command, an empty entry
\* and the name of no existing file are never returned.
C18_SvdFileNamesAFile ==
    (pc \in InPass \cup {"verified"} /\ derivedFrom[stm32SvdPath] # <<>>) =>
        NamesFileIn(buildData[stm32SvdPath], buildData[stm32SvdFile])

(***************************************************************************)
(* Termination of a pass.  The scripts are sequential, so the pass does    *)
(* not rest for ever at a step of the program (Probe, Derive and Python    *)
(* can always be taken where they stand, and each moves on); the operator  *)
(* is assumed not to leave a prompt unanswered for ever.  A rejected       *)
(* answer changes nothing: only the step that leaves the prompt counts.    *)
(* The two conditions are stated on pc alone.                              *)
(***************************************************************************)
PassProgram == pc \in {"probe", "derive", "python"} /\ pc' \in InPass \cup {"verified", "quit"}

PassAnswers ==
    /\ pc \in {"askUpdate", "askDefault", "askPath", "askConfig", "askSvd", "askPython"}
    /\ pc' \in InPass \cup {"verified", "quit"}

\* termination does not depend on whether the documents can be written; the
\* machines taken are those on which the scripts run and persist
FairInit ==
    /\ Init
    /\ env.os \in {"unix", "windows"}
    /\ env.descWritable
    /\ env.cacheWritable

FairSpec == FairInit /\ [][Next]_vars /\ WF_pc(PassProgram) /\ WF_pc(PassAnswers)

Prompts == {"askUpdate", "askDefault", "askPath", "askConfig", "askSvd", "askPython"}

\* the answer that a step away from a prompt has taken is one the prompt accepts
AnswerTaken ==
    CASE pc = "askUpdate" ->
             \/ pc' = "derive" /\ buildData' = buildData
             \/ pc' \in {"askDefault", "askPath"} /\ buildData' = buildData
      [] pc = "askDefault" ->
             \/ pc' = "askPath" /\ buildData' = buildData
             \/ pc' = "derive" /\ pathExists(buildData'[tool.path])
      [] pc = "askPath" ->
             /\ pc' = "derive"
             /\ \E typed \in EntriesFor(tool.path) : buildData'[tool.path] = userPath(typed)
             /\ pathExists(buildData'[tool.path])
      [] pc = "askConfig" ->
             /\ pc' = "python"
             /\ \E line \in ConfigLines :
                    /\ getOpenOcdConfig(buildData[openOcdPath], line).ok
                    /\ buildData'[openOcdConfig] =
                           getOpenOcdConfig(buildData[openOcdPath], line).paths
      [] pc = "askSvd" ->
             /\ pc' = "python"
             /\ buildData'[stm32SvdFile] \in SvdFileNames
             /\ svdFileAccepted(buildData[stm32SvdPath], buildData'[stm32SvdFile])
      [] pc = "askPython" ->
             /\ pc' \in {"probe", "verified"}
             /\ pathExists(buildData'[pythonPath])
      [] OTHER -> TRUE

\* a prompt is left only by an answer it accepts, however many were rejected
PromptLeftByAcceptedAnswer == pc \in Prompts => AnswerTaken

\* the operator has an answer the prompt accepts
AcceptableAnswerExists ==
    CASE pc \in {"askUpdate", "askDefault"} -> \E resp \in Answers : lower(resp) \in {"y", "n"}
      [] pc = "askPath" -> \E typed \in EntriesFor(tool.path) : pathExists(userPath(typed))
      [] pc = "askConfig" ->
             \E line \in ConfigLines : getOpenOcdConfig(buildData[openOcdPath], line).ok
      [] pc = "askSvd" ->
             \E fileName \in SvdFileNames : svdFileAccepted(buildData[stm32SvdPath], fileName)
      [] pc = "askPython" -> \E typed \in EntriesFor(pythonPath) : pathExists(userPath(typed))
      [] OTHER -> TRUE

\* the pass has returned with the four tools processed
PassReturned ==
    /\ pc = "verified"
    /\ toolIx = Len(toolsList)
    /\ \A t \in TrackedTools : Has(buildData, t)

\* C19: no prompt loop of a pass has an iteration cap (a prompt is left only by
\* an accepted answer, so an operator who never gives one keeps the pass from
\* returning), and when every prompt eventually gets an accepted answer the
\* pass returns with all four tools processed unless a derivation was fatal.
C19_PassTerminates ==
    /\ (pc \in InPass) ~> (PassReturned \/ pc = "quit")
    /\ [][PromptLeftByAcceptedAnswer]_vars
    /\ [](pc \in Prompts => AcceptableAnswerExists)

\* a pass that put every kind of prompt has returned
C19_Witness ==
    /\ PassReturned
    /\ request
    /\ \A t \in TrackedTools : Count(asked[t], "yes") = 1
    /\ derivedFrom[openOcdPath] # <<>>
    /\ derivedFrom[stm32SvdPath] # <<>>
    /\ buildData[pythonPath] = AltPython

\* the workspace root holds no project file, or more than one
NoSingleProjectFile == Len(env.ioc) # 1

\* C20, as claimed: a run in a workspace without exactly one project file goes
\* on after the warning, and the descriptor it writes has no cubeMxProjectPath
\* field, whatever an earlier run stored there.
C20_ProjectPathUnset ==
    (NoSingleProjectFile /\ pc = "done") =>
        /\ "WARNING: None or more than one STM32CubeMX files found." \in out
        /\ descFile.kind = "json"
        /\ ~Has(descFile.data, cubeMxProjectPath)

\* a machine on which the scripts run and the two documents can be written:
\* the one on which a write can have been interrupted
WritableMachine ==
    env.os \in {"unix", "windows"} /\ env.descWritable /\ env.cacheWritable

\* the cache is absent, truncated, or holds the eight fields createUserToolsFile
\* writes
CacheAsWritten(cache) == cache.kind = "json" => ToolFields \subseteq DOMAIN cache.data

\* the run in progress found the document truncated
descriptorTruncated ==
    WritableMachine /\ runs > 0 /\ prev.desc.kind = "corrupt" /\ CacheAsWritten(prev.cache)

\* the descriptor is absent, truncated, or holds the eight fields the template
\* gives it
DescriptorAsWritten(desc) == desc.kind = "json" => ToolFields \subseteq DOMAIN desc.data

cacheTruncated ==
    WritableMachine /\ runs > 0 /\ prev.cache.kind = "corrupt" /\ DescriptorAsWritten(prev.desc)

\* the steps of a run after checkBuildDataFile, and after checkToolsPathFile
AfterCheckBuildDataFile ==
    {"getBuildData", "checkToolsPathFile", "addToolsPathsData", "verifyExistingPaths"}
    \cup InPass \cup {"verified", "prepared", "addMakefileData", "overwriteBuildDataFile",
                      "createUserToolsFile", "done"}

\* the run ended, and not by the fatal derivation of the header folder
RunFailed ==
    \/ pc = "crashed"
    \/ pc = "quit" /\ "ERROR Unable to find 'include' subfolder" \notin out

BothDone == pc = "racing" /\ \A p \in Procs : race.proc[p].pc = "done"

\* C22, as claimed: when two concurrent runs have both completed, the cache is
\* the complete eight-field snapshot of the run that wrote last: it parses and
\* is no mixture of the two runs' texts.
C22_LastWriterWins ==
    BothDone => cacheFile = Json(About @@ race.last)

\* the three derived fields of a document agree with its primary paths; a
\* primary path not yet set has nothing derived from it
DerivedConsistent(d) ==
    /\ IF d[gccExePath] = <<>> THEN d[gccInludePath] = <<>>
       ELSE d[gccInludePath] \in getGccIncludePath(d[gccExePath])
    /\ IF d[openOcdPath] = <<>> THEN d[openOcdConfig] = <<>>
       ELSE \A i \in 1..Len(d[openOcdConfig]) :
                IsPrefix(resolve(openOcdScriptsPath(d[openOcdPath])),
                         resolve(d[openOcdConfig][i]))
    /\ IF d[stm32SvdPath] = <<>> THEN d[stm32SvdFile] = <<>>
       ELSE NamesFileIn(d[stm32SvdPath], d[stm32SvdFile])

PersistedConsistent(doc) ==
    doc.kind = "json" => ToolFields \subseteq DOMAIN doc.data /\ DerivedConsistent(doc.data)

\* C23, as claimed: in runs that start from absent documents, every persisted
\* document keeps gccInludePath derived from its gccExePath, every
\* openOcdConfig entry under the scripts folder of its openOcdPath, and
\* stm32SvdFile the name of a file of its stm32SvdPath.
C23_DerivedFieldsConsistent ==
    PersistedConsistent(descFile) /\ PersistedConsistent(cacheFile)

\* C23 apart from the empty SVD file name: the same consistency, the name left
\* aside when it is empty
ConsistentApartFromEmptyName(doc) ==
    doc.kind = "json" =>
        /\ ToolFields \subseteq DOMAIN doc.data
        /\ IF doc.data[stm32SvdFile] = <<>> /\ doc.data[stm32SvdPath] # <<>>
            THEN DerivedConsistent([doc.data EXCEPT ![stm32SvdFile] = <<"f0.svd">>])
            ELSE DerivedConsistent(doc.data)

DerivedConsistentApartFromEmptyName ==
    ConsistentApartFromEmptyName(descFile) /\ ConsistentApartFromEmptyName(cacheFile)

\* the compiler path of this iteration is a bare command typed by the operator,
\* found on the search path in an installation that holds the marker header
bareGccTyped ==
    /\ toolIx = 1
    /\ updated
    /\ Has(buildData, gccExePath)
    /\ buildData[gccExePath] # <<>>
    /\ dirname(buildData[gccExePath]) = <<>>
    /\ which(buildData[gccExePath]) # <<>>
    /\ getGccIncludePath(which(buildData[gccExePath])) # {}

\* C24, as claimed: after such an entry the header folder is derived from the
\* installation the command resolves to, and the run does not quit.
C24_BareGccCommandDerived ==
    (bareGccTyped /\ pc \in {"python", "askPython", "quit"}) =>
        /\ pc # "quit"
        /\ buildData[gccInludePath] \in getGccIncludePath(which(buildData[gccExePath]))

\* C26, as claimed: whatever family detectOS reports, verifyFolderStructure
\* assigns the cache's location and completes: no run ends in the
\* UnboundLocalError of the unassigned settings folder.
C26_CachePathAssignedOnEveryOs ==
    runs > 0 => "UnboundLocalError" \notin out

\* the probe of a tool whose key the descriptor lacks goes to updatePath, as the
\* probe of an invalid path does
MissingKeyProbe ==
    (pc = "probe" /\ ~Has(buildData, tool.path)) =>
        /\ pc' = updatePathPrompt(tool)
        /\ pc' \in {"askDefault", "askPath"}

\* the tool has a valid path, was sent through updatePath once, and its derived
\* field was recomputed from the path it has now
UpdatedAndDerived(t) ==
    /\ Has(buildData, t)
    /\ pathExists(buildData[t])
    /\ Count(asked[t], "updatePath") = 1
    /\ DerivedField(t) # "" => derivedFrom[t] = buildData[t] /\ Has(buildData, DerivedField(t))

\* C25: a tracked tool whose key is absent when the pass starts is handled as
\* one with an invalid path: its probe leads to updatePath, and once its
\* iteration has ended it has a valid path and a recomputed derived field, the
\* pass going on with the next tool.
C25_MissingKeyLikeInvalidPath ==
    /\ [](\A t \in TrackedTools :
            (pc \in InPass \cup {"verified"} /\ ~Has(passStart, t) /\ t \in Processed)
                => UpdatedAndDerived(t))
    /\ [][MissingKeyProbe]_vars

\* a pass that started without the compiler's key has returned
C25_Witness ==
    /\ pc = "verified"
    /\ passStart # EmptyDict
    /\ ~Has(passStart, gccExePath)
    /\ UpdatedAndDerived(gccExePath)
    /\ buildData[gccInludePath] \in getGccIncludePath(buildData[gccExePath])

====
